---- MODULE Spec2Model ----
(***************************************************************************)
(* Model of the Auto-Shorts backend: the /process pipeline of              *)
(* backend/api/routes/process.py (process_video), the positional heuristic *)
(* of backend/services/analysis.py (detect_high_energy_moments) and the    *)
(* caption timing of backend/services/video_processing.py                  *)
(* (generate_word_level_srt).                                              *)
(*                                                                         *)
(* Times are exact rationals <<num, den>> (den > 0, lowest terms): the     *)
(* heuristic divides by num_clips + 1 with Python's true division.         *)
(* A Python dict is a record; a missing key is a field that is not in the  *)
(* record's DOMAIN, so a KeyError is a guard on DOMAIN.                    *)
(***************************************************************************)
EXTENDS Integers, Sequences, FiniteSets, TLC

(* ------------------------------ bounds -------------------------------- *)

\* largest num_shorts a request carries (the smallest is -1)
MaxShorts == 4
\* longest list of moments the AI answers with
MaxAI == 2
\* most external failures (cue file, clip cut) injected into one render loop
MaxFailures == 1
\* longest word list of a transcript in the caption-timing specification
MaxWords == 3
MaxRegens == 2
MaxTime == 1

(* ----------------------------- rationals ------------------------------ *)

RECURSIVE GCD(_, _)
GCD(a, b) == IF b = 0 THEN a ELSE GCD(b, a % b)

Abs(x) == IF x < 0 THEN 0 - x ELSE x

\* n/d in lowest terms, d > 0
Rat(n, d) ==
    LET g == GCD(Abs(n), d)
    IN  IF n = 0 THEN <<0, 1>> ELSE <<n \div g, d \div g>>

R(n) == <<n, 1>>

RatAdd(a, b) == Rat(a[1] * b[2] + b[1] * a[2], a[2] * b[2])
RatSub(a, b) == Rat(a[1] * b[2] - b[1] * a[2], a[2] * b[2])
RatMulInt(a, k) == Rat(a[1] * k, a[2])
RatLt(a, b) == a[1] * b[2] < b[1] * a[2]
RatLe(a, b) == a[1] * b[2] <= b[1] * a[2]
RatAbs(a) == <<Abs(a[1]), a[2]>>
RatMax(a, b) == IF RatLt(a, b) THEN b ELSE a

HasKey(m, k) == k \in DOMAIN m

(* ------------------- analysis.py: heuristic generator ------------------ *)

\* as detect_high_energy_moments with range(num_clips + 1) for the loop
detect_high_energy_moments_OneMore(duration, num_clips, clip_duration) ==
    IF duration = 0 THEN <<>>
    ELSE IF duration <= clip_duration
    THEN << [start |-> R(0), end |-> R(duration), score |-> "1.0",
             reason |-> "Full video (short)"] >>
    ELSE
      LET avail0 == duration - clip_duration
          available_duration == IF avail0 <= 0 THEN 0 ELSE avail0
          step == IF num_clips > 0 THEN Rat(available_duration, num_clips + 1)
                  ELSE R(0)
          start_of(i) ==
              LET st == RatMulInt(step, i + 1)
              IN  IF RatLt(R(duration), RatAdd(st, R(clip_duration)))
                  THEN RatMax(R(0), R(duration - clip_duration))
                  ELSE st
          count == IF num_clips + 1 > 0 THEN num_clips + 1 ELSE 0
      IN  [k \in 1..count |->
             [start  |-> start_of(k - 1),
              end    |-> RatAdd(start_of(k - 1), R(clip_duration)),
              score  |-> "0.8",
              reason |-> "Heuristic segment " \o ToString(k) \o " (Fallback)"]]

\* as detect_high_energy_moments with duration < clip_duration for the
\* short-video test
detect_high_energy_moments_Strict(duration, num_clips, clip_duration) ==
    IF duration = 0 THEN <<>>
    ELSE IF duration < clip_duration
    THEN << [start |-> R(0), end |-> R(duration), score |-> "1.0",
             reason |-> "Full video (short)"] >>
    ELSE
      LET avail0 == duration - clip_duration
          available_duration == IF avail0 <= 0 THEN 0 ELSE avail0
          step == IF num_clips > 0 THEN Rat(available_duration, num_clips + 1)
                  ELSE R(0)
          start_of(i) ==
              LET st == RatMulInt(step, i + 1)
              IN  IF RatLt(R(duration), RatAdd(st, R(clip_duration)))
                  THEN RatMax(R(0), R(duration - clip_duration))
                  ELSE st
          count == IF num_clips > 0 THEN num_clips ELSE 0
      IN  [k \in 1..count |->
             [start  |-> start_of(k - 1),
              end    |-> RatAdd(start_of(k - 1), R(clip_duration)),
              score  |-> "0.8",
              reason |-> "Heuristic segment " \o ToString(k) \o " (Fallback)"]]

\* as detect_high_energy_moments with the first start at 0: step * i
detect_high_energy_moments_FromZero(duration, num_clips, clip_duration) ==
    IF duration = 0 THEN <<>>
    ELSE IF duration <= clip_duration
    THEN << [start |-> R(0), end |-> R(duration), score |-> "1.0",
             reason |-> "Full video (short)"] >>
    ELSE
      LET avail0 == duration - clip_duration
          available_duration == IF avail0 <= 0 THEN 0 ELSE avail0
          step == IF num_clips > 0 THEN Rat(available_duration, num_clips + 1)
                  ELSE R(0)
          start_of(i) ==
              LET st == RatMulInt(step, i)
              IN  IF RatLt(R(duration), RatAdd(st, R(clip_duration)))
                  THEN RatMax(R(0), R(duration - clip_duration))
                  ELSE st
          count == IF num_clips > 0 THEN num_clips ELSE 0
      IN  [k \in 1..count |->
             [start  |-> start_of(k - 1),
              end    |-> RatAdd(start_of(k - 1), R(clip_duration)),
              score  |-> "0.8",
              reason |-> "Heuristic segment " \o ToString(k) \o " (Fallback)"]]

\* duration is what get_video_duration returns for the file: 0 when ffprobe
\* fails, the length in seconds otherwise
detect_high_energy_moments(duration, num_clips, clip_duration) ==
    IF duration = 0 THEN <<>>
    ELSE IF duration <= clip_duration
    THEN << [start |-> R(0), end |-> R(duration), score |-> "1.0",
             reason |-> "Full video (short)"] >>
    ELSE
      LET avail0 == duration - clip_duration
          available_duration == IF avail0 <= 0 THEN 0 ELSE avail0
          step == IF num_clips > 0 THEN Rat(available_duration, num_clips + 1)
                  ELSE R(0)
          start_of(i) ==
              LET st == RatMulInt(step, i + 1)
              IN  IF RatLt(R(duration), RatAdd(st, R(clip_duration)))
                  THEN RatMax(R(0), R(duration - clip_duration))
                  ELSE st
          count == IF num_clips > 0 THEN num_clips ELSE 0
      IN  [k \in 1..count |->
             [start  |-> start_of(k - 1),
              end    |-> RatAdd(start_of(k - 1), R(clip_duration)),
              score  |-> "0.8",
              reason |-> "Heuristic segment " \o ToString(k) \o " (Fallback)"]]

(* ---------------- video_processing.py: caption timing ------------------ *)

RECURSIVE FlattenWords(_)
\* lines 164-174: the words of every segment that has a words key, the
\* segment itself as one word otherwise
FlattenWords(segs) ==
    IF segs = <<>> THEN <<>>
    ELSE LET seg == Head(segs)
             ws  == IF HasKey(seg, "words") THEN seg.words
                    ELSE << [word |-> seg.text, start |-> seg.start,
                             end |-> seg.end] >>
         IN  ws \o FlattenWords(Tail(segs))

RECURSIVE BuildEntries_NoClamp(_, _)
\* as BuildEntries without the clamp of a negative relative start
BuildEntries_NoClamp(all_words, start_offset) ==
    IF all_words = <<>> THEN <<>>
    ELSE LET word_obj == Head(all_words)
             w_start  == RatSub(R(word_obj.start), start_offset)
             w_end    == RatSub(R(word_obj.end), start_offset)
             rest     == BuildEntries_NoClamp(Tail(all_words), start_offset)
         IN  IF RatLt(w_end, R(0)) THEN rest
             ELSE << [start |-> w_start,
                      end   |-> w_end,
                      text  |-> word_obj.word] >> \o rest

RECURSIVE BuildEntries_DropZero(_, _)
\* as BuildEntries dropping a word whose relative end is exactly 0 as well
BuildEntries_DropZero(all_words, start_offset) ==
    IF all_words = <<>> THEN <<>>
    ELSE LET word_obj == Head(all_words)
             w_start  == RatSub(R(word_obj.start), start_offset)
             w_end    == RatSub(R(word_obj.end), start_offset)
             rest     == BuildEntries_DropZero(Tail(all_words), start_offset)
         IN  IF RatLe(w_end, R(0)) THEN rest
             ELSE << [start |-> IF RatLt(w_start, R(0)) THEN R(0) ELSE w_start,
                      end   |-> w_end,
                      text  |-> word_obj.word] >> \o rest

RECURSIVE BuildEntries(_, _)
\* lines 181-197: one entry per word whose relative end is not negative
BuildEntries(all_words, start_offset) ==
    IF all_words = <<>> THEN <<>>
    ELSE LET word_obj == Head(all_words)
             w_start  == RatSub(R(word_obj.start), start_offset)
             w_end    == RatSub(R(word_obj.end), start_offset)
             rest     == BuildEntries(Tail(all_words), start_offset)
         IN  IF RatLt(w_end, R(0)) THEN rest
             ELSE << [start |-> IF RatLt(w_start, R(0)) THEN R(0) ELSE w_start,
                      end   |-> w_end,
                      text  |-> word_obj.word] >> \o rest

\* lines 199-204: the entries are written in list order, each under the
\* running counter, which starts at 1 and moves once per written entry
WriteEntries(srt_entries) ==
    [k \in 1..Len(srt_entries) |->
        [index |-> k,
         start |-> srt_entries[k].start,
         end   |-> srt_entries[k].end,
         text  |-> srt_entries[k].text]]

generate_word_level_srt(segs, start_offset) ==
    WriteEntries(BuildEntries(FlattenWords(segs), start_offset))

(* ------------------------ inputs of the model -------------------------- *)

\* lengths in seconds of the source file as ffprobe reports them (0: ffprobe
\* failed or the file is empty)
Durations == {0, 70, 200}

\* request.clip_duration is an unvalidated int
ClipDurations == {-5, 60}

\* request.processing_start_time of a request that asks for a trim
TrimStart == 10

AIMoment(s, e, t) ==
    [start |-> R(s), end |-> R(e), reason |-> "AI", score |-> "0.9",
     title |-> t, description |-> "d", hashtags |-> <<"#x">>]

AIMoments == {AIMoment(10, 40, "a"), AIMoment(150, 180, "b"),
              AIMoment(15, 45, "c")}

SeqsUpTo(S, n) == UNION {[1..k -> S] : k \in 0..n}

\* what the model's answer parses to: a list of moments, an object with a
\* clips key, an object without one, a scalar; or the call or the parse raises
AIAnswers ==
    {[kind |-> "raise"], [kind |-> "scalar"],
     [kind |-> "object", value |-> [error |-> "quota"]]}
    \cup {[kind |-> "list", value |-> l] : l \in SeqsUpTo(AIMoments, MaxAI)}
    \cup {[kind |-> "clips", value |-> <<AIMoment(10, 40, "a")>>]}

Word(w, s, e) == [word |-> w, start |-> s, end |-> e]

\* transcripts the pipeline specification draws from
Transcripts ==
    { <<>>,
      << [start |-> 8, end |-> 20, text |-> "hi there",
          words |-> <<Word("hi", 8, 12), Word("there", 12, 20)>>],
         [start |-> 30, end |-> 31, text |-> "um", words |-> <<>>],
         [start |-> 150, end |-> 160, text |-> "bye"] >> }

(* ------------------- analysis.py: analyze_transcript ------------------- *)

\* lines 54-72; "scalar" stands for a JSON value that is neither list nor
\* object, handed back as it is
analyze_transcript(answer) ==
    CASE answer.kind = "raise"  -> <<>>
      [] answer.kind = "clips"  -> answer.value
      [] answer.kind = "object" -> << answer.value >>
      [] answer.kind = "list"   -> answer.value
      [] answer.kind = "scalar" -> "scalar"

(* ---------------------- process.py: selection -------------------------- *)

Take(s, n) == SubSeq(s, 1, n)

\* as PySlice with the bound off by one: s[:n + 1]
PySlice_OneMore(s, n) ==
    Take(s, IF n + 1 < Len(s) THEN (IF n + 1 > 0 THEN n + 1 ELSE 0)
            ELSE Len(s))

\* as PySlice taking the tail instead of the head: s[-n:]
PySlice_Tail(s, n) ==
    IF n > 0 /\ n < Len(s) THEN SubSeq(s, Len(s) - n + 1, Len(s))
    ELSE IF n = 0 THEN <<>> ELSE s

\* Python's s[:n]
PySlice(s, n) ==
    IF n >= 0 THEN Take(s, IF n < Len(s) THEN n ELSE Len(s))
    ELSE Take(s, IF Len(s) + n > 0 THEN Len(s) + n ELSE 0)

threshold == 10

\* as is_overlapping testing only the first accepted moment
is_overlapping_FirstOnly(new_m, existing_ms) ==
    /\ existing_ms # <<>>
    /\ RatLt(RatAbs(RatSub(new_m.start, existing_ms[1].start)), R(threshold))

\* as is_overlapping with a threshold of 5 seconds
is_overlapping_Five(new_m, existing_ms) ==
    \E k \in 1..Len(existing_ms) :
        RatLt(RatAbs(RatSub(new_m.start, existing_ms[k].start)), R(5))

\* as is_overlapping with the comparison turned round
is_overlapping_Inverted(new_m, existing_ms) ==
    \E k \in 1..Len(existing_ms) :
        RatLt(R(threshold), RatAbs(RatSub(new_m.start, existing_ms[k].start)))

\* lines 195-200; the caller guards the start keys
is_overlapping(new_m, existing_ms) ==
    \E k \in 1..Len(existing_ms) :
        RatLt(RatAbs(RatSub(new_m.start, existing_ms[k].start)), R(threshold))

RECURSIVE Insert(_, _)
Insert(sorted, m) ==
    IF sorted = <<>> THEN <<m>>
    ELSE IF RatLt(m.start, Head(sorted).start) THEN <<m>> \o sorted
    ELSE <<Head(sorted)>> \o Insert(Tail(sorted), m)

RECURSIVE SortByStart(_)
\* list.sort(key=start): stable, ascending
SortByStart(ms) ==
    IF ms = <<>> THEN <<>>
    ELSE Insert(SortByStart(Take(ms, Len(ms) - 1)), ms[Len(ms)])

AllHaveStart(ms) == \A k \in 1..Len(ms) : HasKey(ms[k], "start")

(* ------------------ caption style: STYLE_MAP, overrides ---------------- *)

\* a style string is a comma separated list of key=value attributes; it is
\* kept as the list of its attributes, every value as its characters
Attr(k, v) == [key |-> k, value |-> v]

\* an ASS colour &HBBGGRR& from its three byte strings
Ass(b, g, r) == <<"&", "H">> \o b \o g \o r \o <<"&">>

StyleNames == {"Karaoke", "Deep Diver", "Mozi", "Glitch", "Classic"}

\* video_processing.py lines 10-16
STYLE_MAP ==
    [name \in StyleNames |->
       CASE name = "Karaoke" ->
              << Attr("Alignment", <<"1", "0">>),
                 Attr("Fontname", <<"Nirmala UI">>),
                 Attr("Fontsize", <<"3", "0">>),
                 Attr("PrimaryColour",
                      Ass(<<"0", "0">>, <<"F", "F">>, <<"0", "0">>)),
                 Attr("OutlineColour",
                      Ass(<<"0", "0">>, <<"0", "0">>, <<"0", "0">>)),
                 Attr("BorderStyle", <<"1">>),
                 Attr("Outline", <<"1">>),
                 Attr("Shadow", <<"0">>),
                 Attr("MarginV", <<"2", "0">>) >>
         [] name = "Deep Diver" ->
              << Attr("Alignment", <<"1", "0">>),
                 Attr("Fontname", <<"Nirmala UI">>),
                 Attr("Fontsize", <<"3", "0">>),
                 Attr("PrimaryColour",
                      Ass(<<"F", "F">>, <<"F", "F">>, <<"F", "F">>)),
                 Attr("BorderStyle", <<"3">>),
                 Attr("Outline", <<"1">>),
                 Attr("Shadow", <<"0">>),
                 Attr("MarginV", <<"2", "0">>) >>
         [] name = "Mozi" ->
              << Attr("Alignment", <<"1", "0">>),
                 Attr("Fontname", <<"Nirmala UI">>),
                 Attr("Fontsize", <<"3", "0">>),
                 Attr("PrimaryColour",
                      Ass(<<"F", "F">>, <<"0", "0">>, <<"F", "F">>)),
                 Attr("OutlineColour",
                      Ass(<<"F", "F">>, <<"F", "F">>, <<"0", "0">>)),
                 Attr("BorderStyle", <<"1">>),
                 Attr("Outline", <<"2">>),
                 Attr("Shadow", <<"0">>),
                 Attr("MarginV", <<"2", "0">>) >>
         [] name = "Glitch" ->
              << Attr("Alignment", <<"1", "0">>),
                 Attr("Fontname", <<"Nirmala UI">>),
                 Attr("Fontsize", <<"3", "0">>),
                 Attr("PrimaryColour",
                      Ass(<<"0", "0">>, <<"0", "0">>, <<"F", "F">>)),
                 Attr("OutlineColour",
                      Ass(<<"0", "0">>, <<"F", "F">>, <<"F", "F">>)),
                 Attr("BorderStyle", <<"1">>),
                 Attr("Outline", <<"1">>),
                 Attr("Shadow", <<"1">>),
                 Attr("MarginV", <<"2", "0">>) >>
         [] name = "Classic" ->
              << Attr("Alignment", <<"1", "0">>),
                 Attr("Fontname", <<"Nirmala UI">>),
                 Attr("Fontsize", <<"3", "0">>),
                 Attr("PrimaryColour",
                      Ass(<<"F", "F">>, <<"F", "F">>, <<"F", "F">>)),
                 Attr("OutlineColour",
                      Ass(<<"0", "0">>, <<"0", "0">>, <<"0", "0">>)),
                 Attr("BorderStyle", <<"1">>),
                 Attr("Outline", <<"1">>),
                 Attr("Shadow", <<"0">>),
                 Attr("MarginV", <<"2", "0">>) >>]

DecDigits == {"0", "1", "2", "3", "4", "5", "6", "7", "8", "9"}
HexDigits == DecDigits \cup {"A", "B", "C", "D", "E", "F",
                             "a", "b", "c", "d", "e", "f"}

\* the pattern \d+
IsDigits(v) == v # <<>> /\ \A k \in 1..Len(v) : v[k] \in DecDigits

\* the pattern &H[0-9A-Fa-f]+&
IsAssColour(v) ==
    /\ Len(v) >= 4
    /\ v[1] = "&" /\ v[2] = "H" /\ v[Len(v)] = "&"
    /\ \A k \in 3..(Len(v) - 1) : v[k] \in HexDigits

\* v matches the pattern in full
Matches(pattern, v) ==
    CASE pattern = "\\d+" -> IsDigits(v)
      [] pattern = "&H[0-9A-Fa-f]+&" -> IsAssColour(v)

\* re.sub(key=<pattern>, key=<value>, style): every attribute key whose
\* value matches the pattern gets the new value; a style without such an
\* attribute comes back as it is
re_sub(style, key, pattern, value) ==
    [k \in 1..Len(style) |->
        IF style[k].key = key /\ Matches(pattern, style[k].value)
        THEN Attr(key, value) ELSE style[k]]

RECURSIVE lstrip(_)
\* str.lstrip('#'): every leading '#' goes
lstrip(s) == IF s # <<>> /\ Head(s) = "#" THEN lstrip(Tail(s)) ELSE s

\* Python's s[a:b] for 0 <= a <= b
PySub(s, a, b) ==
    SubSeq(s, a + 1, IF b < Len(s) THEN b ELSE Len(s))

\* &HBBGGRR& of a stripped RRGGBB
ass_color(hex_color) ==
    Ass(PySub(hex_color, 4, 6), PySub(hex_color, 2, 4), PySub(hex_color, 0, 2))

DigitChar(n) ==
    CASE n = 0 -> "0" [] n = 1 -> "1" [] n = 2 -> "2" [] n = 3 -> "3"
      [] n = 4 -> "4" [] n = 5 -> "5" [] n = 6 -> "6" [] n = 7 -> "7"
      [] n = 8 -> "8" [] n = 9 -> "9"

RECURSIVE Str(_)
\* str() of an int, as the f-string formats custom_size
Str(n) ==
    IF n < 0 THEN <<"-">> \o Str(0 - n)
    ELSE IF n < 10 THEN <<DigitChar(n)>>
    ELSE Str(n \div 10) \o <<DigitChar(n % 10)>>

\* as base_style falling back to the first table entry
base_style_First(caption_style) ==
    IF caption_style \in DOMAIN STYLE_MAP THEN STYLE_MAP[caption_style]
    ELSE STYLE_MAP["Karaoke"]

\* process.py line 243: STYLE_MAP.get(caption_style, STYLE_MAP["Classic"])
base_style(caption_style) ==
    IF caption_style \in DOMAIN STYLE_MAP THEN STYLE_MAP[caption_style]
    ELSE STYLE_MAP["Classic"]

\* as apply_custom_color without the length test
apply_custom_color_NoLengthTest(style, custom_color) ==
    IF custom_color = <<>> THEN style
    ELSE re_sub(style, "PrimaryColour", "&H[0-9A-Fa-f]+&",
                ass_color(lstrip(custom_color)))

\* process.py lines 246-255; None and "" are both <<>>
apply_custom_color(style, custom_color) ==
    IF custom_color = <<>> THEN style
    ELSE LET hex_color == lstrip(custom_color)
         IN  IF Len(hex_color) = 6
             THEN re_sub(style, "PrimaryColour", "&H[0-9A-Fa-f]+&",
                         ass_color(hex_color))
             ELSE style

\* as apply_custom_bg_color turning the text white on the box as well
apply_custom_bg_color_WhiteText(style, custom_bg_color) ==
    IF custom_bg_color = <<>> THEN style
    ELSE LET hex_bg == lstrip(custom_bg_color)
         IN  IF Len(hex_bg) = 6
             THEN re_sub(re_sub(re_sub(re_sub(style,
                                       "BorderStyle", "\\d+", <<"3">>),
                                "Shadow", "\\d+", <<"0">>),
                         "OutlineColour", "&H[0-9A-Fa-f]+&", ass_color(hex_bg)),
                         "PrimaryColour", "&H[0-9A-Fa-f]+&",
                         Ass(<<"F", "F">>, <<"F", "F">>, <<"F", "F">>))
             ELSE style

\* process.py lines 257-269
apply_custom_bg_color(style, custom_bg_color) ==
    IF custom_bg_color = <<>> THEN style
    ELSE LET hex_bg == lstrip(custom_bg_color)
         IN  IF Len(hex_bg) = 6
             THEN re_sub(re_sub(re_sub(style,
                                       "BorderStyle", "\\d+", <<"3">>),
                                "Shadow", "\\d+", <<"0">>),
                         "OutlineColour", "&H[0-9A-Fa-f]+&", ass_color(hex_bg))
             ELSE style

\* process.py lines 271-272; None and 0 are both 0
apply_custom_size(style, custom_size) ==
    IF custom_size = 0 THEN style
    ELSE re_sub(style, "Fontsize", "\\d+", Str(custom_size))

\* process.py lines 242-272: the style string handed to cut_video
resolve_style(caption_style, custom_color, custom_bg_color, custom_size) ==
    apply_custom_size(
        apply_custom_bg_color(
            apply_custom_color(base_style(caption_style), custom_color),
            custom_bg_color),
        custom_size)

\* video_processing.py lines 264-268: the style cut_video burns the cues with
cut_video_style(style_name, force_style_string) ==
    IF force_style_string # <<>> THEN force_style_string
    ELSE base_style(style_name)

(* ------------------------------ state ---------------------------------- *)

VARIABLES
    pc,                 \* stage of the request
    request,            \* the ProcessRequest fields the pipeline reads
    duration,           \* length of request.video_path as ffprobe reports it
    transcript,         \* NoTranscript or [kind, text, segments]
    segments,
    moments,
    heuristic_moments,  \* result of the backfill call (line 188)
    needed,
    added_count,
    hidx,               \* position of the backfill loop in heuristic_moments
    idx,                \* position of the render loop in moments (i + 1)
    generated_clips,
    srt_files,          \* clip number -> cue list written to its .srt
    cache,              \* <file_id>_transcript.json: NoFile or its contents
    failures,           \* external failures injected so far
    ai_answer,          \* what the AI call of this request came back with
    heuristic_calls,    \* site and num_clips of every heuristic call so far
    stages,             \* stages the request has gone through, in order
    attempts,           \* outcome of every iteration of the render loop
    final_style,        \* style string of the last call of cut_video
    response,           \* body of the answer to the request
    now,                \* the wall clock, in whole seconds
    regens              \* the regenerate requests served so far

vars == <<pc, request, duration, transcript, segments, moments,
          heuristic_moments, needed, added_count, hidx, idx, generated_clips,
          srt_files, cache, failures, ai_answer, heuristic_calls, stages,
          attempts, final_style, response, now, regens>>

selVars == <<heuristic_moments, needed, added_count, hidx>>
regenVars == <<now, regens>>
renderVars == <<idx, generated_clips, srt_files, failures, attempts,
                final_style, response>>

\* Python's None for the transcript
NoTranscript == [kind |-> "None"]

NoFile == [exists |-> FALSE]

\* the cache file right after open(path, "w"): it exists and is empty
EmptyFile == [exists |-> TRUE, complete |-> FALSE]

\* the cache file after json.dump has written the whole list
CacheFile(segs) == [exists |-> TRUE, complete |-> TRUE, content |-> segs]

\* analyze_transcript has not been called
NotAsked == [kind |-> "none"]

\* no answer has been sent
NoResponse == [status |-> "none"]

\* the string the response carries in place of a transcript (line 313)
NoTranscriptAvailable == [kind |-> "No Transcript Available"]

\* the pipeline specification keeps the style fields at their defaults
Requests ==
    [num_shorts : -1..MaxShorts, clip_duration : ClipDurations,
     trim : BOOLEAN, video_path : {"source"},
     caption_style : {"Classic"}, custom_color : {<<>>},
     custom_bg_color : {<<>>}, custom_size : {0}]

Init ==
    /\ pc = "Ingest"
    /\ request \in Requests
    /\ duration \in Durations
    /\ transcript = NoTranscript
    /\ segments = <<>>
    /\ moments = <<>>
    /\ heuristic_moments = <<>>
    /\ needed = 0
    /\ added_count = 0
    /\ hidx = 1
    /\ idx = 1
    /\ generated_clips = <<>>
    /\ srt_files = <<>>
    /\ cache = NoFile
    /\ failures = 0
    /\ ai_answer = NotAsked
    /\ heuristic_calls = <<>>
    /\ stages = <<>>
    /\ attempts = <<>>
    /\ final_style = <<>>
    /\ response = NoResponse
    /\ now = 0
    /\ regens = <<>>

Fail(stage) ==
    /\ pc' = "failed"
    /\ stages' = Append(stages, stage)

Goto(stage, next) ==
    /\ pc' = next
    /\ stages' = Append(stages, stage)

(* ------------------- process.py: process_video ------------------------- *)

\* as IngestOk going on to the transcription at once
IngestOk_SkipAudio ==
    /\ pc = "Ingest"
    /\ Goto("Ingest", "Transcribe")
    /\ UNCHANGED <<regenVars, request, duration, transcript, segments,
                   moments, selVars, renderVars, cache, heuristic_calls,
                   ai_answer>>

\* lines 40-50: download, or check that the uploaded file exists
IngestOk ==
    /\ pc = "Ingest"
    /\ Goto("Ingest", IF request.trim THEN "Trim" ELSE "ExtractAudio")
    /\ UNCHANGED <<regenVars, request, duration, transcript, segments,
                   moments, selVars,
                   renderVars, cache, heuristic_calls, ai_answer>>

IngestFail ==
    /\ pc = "Ingest"
    /\ Fail("Ingest")
    /\ UNCHANGED <<regenVars, request, duration, transcript, segments,
                   moments, selVars,
                   renderVars, cache, heuristic_calls, ai_answer>>

\* lines 60-90: the trimmed copy replaces request.video_path
TrimOk ==
    /\ pc = "Trim"
    /\ request' = [request EXCEPT !.video_path = "trimmed"]
    /\ duration' = IF duration > TrimStart THEN duration - TrimStart ELSE 0
    /\ Goto("Trim", "ExtractAudio")
    /\ UNCHANGED <<regenVars, transcript, segments, moments, selVars,
                   renderVars, cache,
                   heuristic_calls, ai_answer>>

\* lines 92-97
TrimFail ==
    /\ pc = "Trim"
    /\ Fail("Trim")
    /\ UNCHANGED <<regenVars, request, duration, transcript, segments,
                   moments, selVars,
                   renderVars, cache, heuristic_calls, ai_answer>>

\* lines 100-103
ExtractAudioOk ==
    /\ pc = "ExtractAudio"
    /\ Goto("ExtractAudio", "Transcribe")
    /\ UNCHANGED <<regenVars, request, duration, transcript, segments,
                   moments, selVars,
                   renderVars, cache, heuristic_calls, ai_answer>>

\* lines 104-107
ExtractAudioFail ==
    /\ pc = "ExtractAudio"
    /\ Fail("ExtractAudio")
    /\ UNCHANGED <<regenVars, request, duration, transcript, segments,
                   moments, selVars,
                   renderVars, cache, heuristic_calls, ai_answer>>

\* lines 110-122: a transcript with text
TranscribeOk ==
    /\ pc = "Transcribe"
    /\ \E segs \in Transcripts :
          transcript' = [kind |-> "dict", text |-> "hi there bye",
                         segments |-> segs]
    /\ Goto("Transcribe", "Analyze")
    /\ UNCHANGED <<regenVars, request, duration,
                   segments, moments, selVars, renderVars,
                   cache, heuristic_calls, ai_answer>>

\* lines 111-133: the transcriber raises before line 115 assigns, or returns
\* None; the except clause swallows the exception
TranscribeFail ==
    /\ pc = "Transcribe"
    /\ transcript' = NoTranscript
    /\ Goto("Transcribe", "Analyze")
    /\ UNCHANGED <<regenVars, request, duration,
                   segments, moments, selVars, renderVars,
                   cache, heuristic_calls, ai_answer>>

\* lines 115-133: the transcriber returns a dict whose text is empty; line
\* 115 has assigned it before line 121 raises, and the except clause leaves
\* the variable as it is
TranscribeEmptyText ==
    /\ pc = "Transcribe"
    /\ transcript' = [kind |-> "dict", text |-> "", segments |-> <<>>]
    /\ Goto("Transcribe", "Analyze")
    /\ UNCHANGED <<regenVars, request, duration,
                   segments, moments, selVars, renderVars,
                   cache, heuristic_calls, ai_answer>>

\* lines 135-153, without a transcript
AnalyzeSkip ==
    /\ pc = "Analyze"
    /\ transcript.kind = "None"
    /\ moments' = <<>>
    /\ segments' = <<>>
    /\ Goto("Analyze", "Fallback")
    /\ UNCHANGED <<regenVars, request, duration,
                   transcript, selVars, renderVars, cache,
                   heuristic_calls, ai_answer>>

\* lines 135-153, with a transcript; len(moments) on line 153 raises for a
\* value that has no length
Analyze ==
    /\ pc = "Analyze"
    /\ transcript.kind # "None"
    /\ segments' = transcript.segments
    /\ \E answer \in AIAnswers :
          LET result == analyze_transcript(answer)
          IN  /\ ai_answer' = answer
              /\ IF answer.kind = "scalar"
                 THEN /\ moments' = <<>>
                      /\ Fail("Analyze")
                 ELSE /\ moments' = result
                      /\ Goto("Analyze", "SaveTranscript")
    /\ UNCHANGED <<regenVars, request, duration,
                   transcript, selVars, renderVars, cache,
                   heuristic_calls>>

\* lines 156-159: open(path, "w") creates the file or empties the one that
\* is there
SaveTranscriptOpen ==
    /\ pc = "SaveTranscript"
    /\ cache' = EmptyFile
    /\ pc' = "SaveTranscriptDump"
    /\ UNCHANGED <<regenVars, request, duration, transcript, segments,
                   moments, selVars, renderVars, heuristic_calls, ai_answer,
                   stages>>

\* lines 160-161: json.dump writes the segment list and the file is closed
SaveTranscriptOk ==
    /\ pc = "SaveTranscriptDump"
    /\ cache' = CacheFile(segments)
    /\ Goto("SaveTranscript", "Fallback")
    /\ UNCHANGED <<regenVars, request, duration, transcript, segments,
                   moments, selVars, renderVars, heuristic_calls, ai_answer>>

\* lines 162-164: open() raises, the file system is left as it was
SaveTranscriptFail ==
    /\ pc = "SaveTranscript"
    /\ Goto("SaveTranscript", "Fallback")
    /\ UNCHANGED <<regenVars, request, duration, transcript, segments,
                   moments, selVars, renderVars, cache, heuristic_calls,
                   ai_answer>>

\* lines 160-164: json.dump raises (the disk is full, a value cannot be
\* serialised); the except clause logs it and the file stays as it is
SaveTranscriptDumpFail ==
    /\ pc = "SaveTranscriptDump"
    /\ Goto("SaveTranscript", "Fallback")
    /\ UNCHANGED <<regenVars, request, duration, transcript, segments,
                   moments, selVars, renderVars, cache, heuristic_calls,
                   ai_answer>>

\* lines 167-176
Fallback ==
    /\ pc = "Fallback"
    /\ IF moments = <<>>
       THEN /\ moments' = detect_high_energy_moments(
                              duration, request.num_shorts,
                              request.clip_duration)
            /\ heuristic_calls' = Append(heuristic_calls,
                   [site |-> "fallback", num_clips |-> request.num_shorts])
       ELSE UNCHANGED <<moments, heuristic_calls>>
    /\ Goto("Fallback", "Limit")
    /\ UNCHANGED <<regenVars, request, duration, transcript, segments, selVars,
                   renderVars, cache, ai_answer>>

\* lines 179-202
Limit ==
    /\ pc = "Limit"
    /\ IF Len(moments) > request.num_shorts
       THEN /\ moments' = PySlice(moments, request.num_shorts)
            /\ Goto("Limit", "Render")
            /\ UNCHANGED <<selVars, heuristic_calls>>
       ELSE IF Len(moments) < request.num_shorts
       THEN /\ needed' = request.num_shorts - Len(moments)
            /\ heuristic_moments' = detect_high_energy_moments(
                                        duration, request.num_shorts * 2,
                                        request.clip_duration)
            /\ heuristic_calls' = Append(heuristic_calls,
                   [site |-> "backfill", num_clips |-> request.num_shorts * 2])
            /\ added_count' = 0
            /\ hidx' = 1
            /\ Goto("Limit", "Backfill")
            /\ UNCHANGED moments
       ELSE /\ Goto("Limit", "Render")
            /\ UNCHANGED <<moments, selVars, heuristic_calls>>
    /\ UNCHANGED <<regenVars, request, duration,
                   transcript, segments, renderVars, cache,
                   ai_answer>>

\* as Backfilled lowering the score of the moment as well
Backfilled_Rescored(hm) ==
    [hm EXCEPT !.reason = "Heuristic Backfill", !.score = "0.5"]

\* line 208: hm["reason"] = "Heuristic Backfill", on the dict that is then
\* appended
Backfilled(hm) == [hm EXCEPT !.reason = "Heuristic Backfill"]

\* lines 203-210: one iteration of the backfill loop; ex["start"] raises for
\* an accepted moment without a start
BackfillStep ==
    /\ pc = "Backfill"
    /\ hidx <= Len(heuristic_moments)
    /\ added_count < needed
    /\ LET hm == heuristic_moments[hidx]
       IN  IF moments # <<>> /\ ~AllHaveStart(moments)
           THEN /\ Fail("Backfill")
                /\ UNCHANGED <<moments, added_count, hidx, heuristic_moments>>
           ELSE /\ IF ~is_overlapping(hm, moments)
                   THEN /\ moments' = Append(moments, Backfilled(hm))
                        /\ heuristic_moments' = [heuristic_moments EXCEPT
                               ![hidx] = Backfilled(hm)]
                        /\ added_count' = added_count + 1
                   ELSE UNCHANGED <<moments, added_count, heuristic_moments>>
                /\ hidx' = hidx + 1
                /\ UNCHANGED <<pc, stages>>
    /\ UNCHANGED <<regenVars, request, duration, transcript, segments, needed,
                   renderVars, cache, heuristic_calls, ai_answer>>

\* lines 203-213: the loop ends (break or exhausted), then the sort, whose
\* key raises for a moment without a start
BackfillSort ==
    /\ pc = "Backfill"
    /\ hidx > Len(heuristic_moments) \/ added_count >= needed
    /\ IF AllHaveStart(moments)
       THEN /\ moments' = SortByStart(moments)
            /\ Goto("Backfill", "Render")
       ELSE /\ Fail("Backfill")
            /\ UNCHANGED moments
    /\ UNCHANGED <<regenVars, request, duration, transcript, segments, selVars,
                   renderVars, cache, heuristic_calls, ai_answer>>

\* as output_path numbering by the 0-based loop index
output_path_ZeroBased(i) == "short_" \o ToString(i - 1) \o ".mp4"

\* lines 219-220, with i + 1 of the loop as i and without the file_id prefix
output_path(i) == "short_" \o ToString(i) \o ".mp4"
srt_path(i) == "short_" \o ToString(i) \o ".srt"

\* as AfterClip leaving the loop when the cut failed
AfterClip_Break(i, cut_ok, n) == IF cut_ok THEN i + 1 ELSE n + 1

\* lines 218, 305-308: the except clause passes and the for loop goes on to
\* the next moment, whatever happened to clip i
AfterClip(i, cut_ok, n) == i + 1

\* as subtitle_arg set before the cue file is generated
subtitle_arg_Early(segs, srt_ok, i) ==
    IF segs # <<>> THEN srt_path(i) ELSE "None"

\* lines 227-240: the cue file of clip i when there are segments and its
\* generation did not raise, None otherwise
subtitle_arg(segs, srt_ok, i) ==
    IF segs # <<>> /\ srt_ok THEN srt_path(i) ELSE "None"

\* where second 0 of a video file lies on the timeline of the upload: the
\* trimmed copy starts at processing_start_time (video_processing.py 219-222)
Origin(video_path) == IF video_path = "trimmed" THEN TrimStart ELSE 0

\* video_processing.py lines 282-292: -ss start_time -i video_path -t
\* (end_time - start_time); the footage cut, on the timeline of the upload
Footage(video_path, start_time, end_time) ==
    [from |-> RatAdd(R(Origin(video_path)), start_time),
     to   |-> RatAdd(RatAdd(R(Origin(video_path)), start_time),
                     RatSub(end_time, start_time))]

ClipOf(moment, i) ==
    [path |-> output_path(i),
     reason |-> IF HasKey(moment, "reason") THEN moment.reason
                ELSE "AI Selected",
     start |-> moment.start,
     end |-> moment.end,
     title |-> IF HasKey(moment, "title") THEN moment.title
               ELSE "Clip " \o ToString(i)]

\* lines 218-308: one iteration of the render loop; line 222 reads
\* moment['start'] and moment['end'] outside the try
RenderClip ==
    /\ pc = "Render"
    /\ idx <= Len(moments)
    /\ LET moment == moments[idx]
       IN  IF ~(HasKey(moment, "start") /\ HasKey(moment, "end"))
           THEN /\ Fail("Render")
                /\ UNCHANGED renderVars
           ELSE \E srt_ok \in BOOLEAN, cut_ok \in BOOLEAN :
                /\ LET injected == (IF srt_ok \/ segments = <<>> THEN 0 ELSE 1)
                                   + (IF cut_ok THEN 0 ELSE 1)
                   IN  /\ failures + injected <= MaxFailures
                       /\ failures' = failures + injected
                /\ segments = <<>> => srt_ok
                /\ srt_files' =
                     IF segments # <<>> /\ srt_ok
                     THEN srt_files
                          @@ (srt_path(idx) :> generate_word_level_srt(
                                                   segments, moment.start))
                     ELSE srt_files
                /\ generated_clips' =
                     IF cut_ok
                     THEN Append(generated_clips,
                            ClipOf(moment, idx)
                            @@ [subtitle |->
                                  subtitle_arg(segments, srt_ok, idx)])
                     ELSE generated_clips
                /\ final_style' = cut_video_style(
                       request.caption_style,
                       resolve_style(
                           request.caption_style, request.custom_color,
                           request.custom_bg_color, request.custom_size))
                /\ attempts' = Append(attempts,
                       [clip |-> idx,
                        srt  |-> IF segments = <<>> THEN "none"
                                 ELSE IF srt_ok THEN "written" ELSE "failed",
                        cut  |-> cut_ok,
                        offset        |-> moment.start,
                        video_path    |-> request.video_path,
                        start_time    |-> moment.start,
                        end_time      |-> moment.end,
                        output_path   |-> output_path(idx),
                        subtitle_path |-> subtitle_arg(segments, srt_ok,
                                                       idx)])
                /\ idx' = AfterClip(idx, cut_ok, Len(moments))
                /\ UNCHANGED <<pc, stages, response>>
    /\ UNCHANGED <<regenVars, request, duration, transcript, segments,
                   moments, selVars,
                   cache, heuristic_calls, ai_answer>>

\* lines 310-315
Aggregate ==
    /\ pc = "Render"
    /\ idx > Len(moments)
    /\ Goto("Render", "done")
    /\ response' = [status |-> "completed",
                    transcript |-> IF transcript.kind # "None" THEN transcript
                                   ELSE NoTranscriptAvailable,
                    clips |-> generated_clips]
    /\ UNCHANGED <<regenVars, request, duration, transcript, segments,
                   moments, selVars,
                   idx, generated_clips, srt_files, failures, attempts,
                   final_style, cache, heuristic_calls, ai_answer>>

Next ==
    \/ IngestOk \/ IngestFail
    \/ TrimOk \/ TrimFail
    \/ ExtractAudioOk \/ ExtractAudioFail
    \/ TranscribeOk \/ TranscribeFail \/ TranscribeEmptyText
    \/ AnalyzeSkip \/ Analyze
    \/ SaveTranscriptOpen \/ SaveTranscriptOk
    \/ SaveTranscriptFail \/ SaveTranscriptDumpFail
    \/ Fallback \/ Limit
    \/ BackfillStep \/ BackfillSort
    \/ RenderClip \/ Aggregate

Spec == Init /\ [][Next]_vars

(* ------------------ process.py: regenerate_video ----------------------- *)

\* start_time and end_time of a regenerate request
RegenWindows ==
    {[start_time |-> R(10), end_time |-> R(40)],
     [start_time |-> R(15), end_time |-> R(45)]}

\* lines 343-346: both paths carry int(time.time())
regen_output_path(ts) == "regen_" \o ToString(ts) \o ".mp4"
regen_srt_path(ts) == "regen_" \o ToString(ts) \o ".srt"

\* the clock moves on by a second
Tick ==
    /\ now < MaxTime
    /\ now' = now + 1
    /\ UNCHANGED <<pc, request, duration, transcript, segments, moments,
                   selVars, renderVars, cache, ai_answer, heuristic_calls,
                   stages, regens>>

\* lines 327-435: one regenerate request for the file_id of the process
\* request, served by another worker; json.load on line 337 raises for a
\* file that is not a complete JSON text, outside any try. The record kept
\* of it holds what it read, whether the process request had answered
\* (later), and what it handed to generate_word_level_srt and cut_video;
\* of the three failures only the first that strikes is drawn
Regenerate ==
    /\ Len(regens) < MaxRegens
    /\ \E w \in RegenWindows, srt_ok \in BOOLEAN, video_ok \in BOOLEAN,
          cut_ok \in BOOLEAN :
          LET injected == Cardinality({b \in {<<1, srt_ok>>, <<2, video_ok>>,
                                              <<3, cut_ok>>} : ~b[2]})
              ts   == now
              call == [start_time  |-> w.start_time,
                       end_time    |-> w.end_time,
                       read        |-> cache,
                       later       |-> pc = "done",
                       ts          |-> ts,
                       output_path |-> regen_output_path(ts),
                       srt_path    |-> regen_srt_path(ts)]
          IN  /\ failures + injected <= MaxFailures
              /\ ~(cache.exists /\ cache.complete) => injected = 0
              /\ ~srt_ok => (video_ok /\ cut_ok)
              /\ ~video_ok => cut_ok
              /\ failures' = failures + injected
              /\ regens' = Append(regens,
                   IF ~cache.exists
                   THEN [status |-> "404 transcript",
                         start_time |-> w.start_time,
                         end_time |-> w.end_time, read |-> cache]
                   ELSE IF ~cache.complete
                   THEN [status |-> "500 load",
                         start_time |-> w.start_time,
                         end_time |-> w.end_time, read |-> cache]
                   ELSE IF ~srt_ok
                   THEN call @@ [status |-> "500 srt"]
                   ELSE IF ~video_ok
                   THEN call @@ [status |-> "404 video",
                                 cues |-> generate_word_level_srt(
                                              cache.content, w.start_time)]
                   ELSE call @@
                        [status |-> IF cut_ok THEN "completed"
                                    ELSE "500 cut",
                         cues |-> generate_word_level_srt(
                                      cache.content, w.start_time),
                         video_path |-> "source",
                         final_style |-> cut_video_style("Classic",
                             resolve_style("Classic", <<>>, <<>>, 0))])
    /\ UNCHANGED <<pc, request, duration, transcript, segments, moments,
                   selVars, idx, generated_clips, srt_files, attempts,
                   final_style, response, cache, ai_answer, heuristic_calls,
                   stages, now>>

\* a process request that has analysed its transcript (trimmed or not) and
\* is about to write the cache, which an earlier request for the same
\* file_id may have written already
InitRegen ==
    \E trim \in BOOLEAN, earlier \in BOOLEAN :
       LET m    == AIMoment(10, 40, "a")
           segs == << [start |-> 8, end |-> 20, text |-> "hi there",
                       words |-> <<Word("hi", 8, 12),
                                   Word("there", 12, 20)>>] >>
       IN  /\ pc = "SaveTranscript"
           /\ request = [num_shorts |-> 1, clip_duration |-> 60,
                         trim |-> trim,
                         video_path |-> IF trim THEN "trimmed" ELSE "source",
                         caption_style |-> "Classic", custom_color |-> <<>>,
                         custom_bg_color |-> <<>>, custom_size |-> 0]
           /\ duration = IF trim THEN 190 ELSE 200
           /\ transcript = [kind |-> "dict", text |-> "hi there",
                            segments |-> segs]
           /\ segments = segs
           /\ moments = <<m>>
           /\ heuristic_moments = <<>>
           /\ needed = 0
           /\ added_count = 0
           /\ hidx = 1
           /\ idx = 1
           /\ generated_clips = <<>>
           /\ srt_files = <<>>
           /\ cache = IF earlier THEN CacheFile(segs) ELSE NoFile
           /\ failures = 0
           /\ ai_answer = [kind |-> "list", value |-> <<m>>]
           /\ heuristic_calls = <<>>
           /\ stages = IF trim
                       THEN <<"Ingest", "Trim", "ExtractAudio", "Transcribe",
                              "Analyze">>
                       ELSE <<"Ingest", "ExtractAudio", "Transcribe",
                              "Analyze">>
           /\ attempts = <<>>
           /\ final_style = <<>>
           /\ response = NoResponse
           /\ now = 0
           /\ regens = <<>>

NextRegen ==
    \/ SaveTranscriptOpen \/ SaveTranscriptOk
    \/ SaveTranscriptFail \/ SaveTranscriptDumpFail
    \/ Fallback \/ Limit
    \/ RenderClip \/ Aggregate
    \/ Regenerate \/ Tick

SpecRegen == InitRegen /\ [][NextRegen]_vars

(* ======================= properties: selection ======================== *)

\* selection has finished: moments is the list the render loop iterates
Selected == pc \in {"Render", "done"}

\* the list analyze_transcript handed to process_video
ai_candidates ==
    IF ai_answer.kind \in {"raise", "clips", "object", "list"}
    THEN analyze_transcript(ai_answer) ELSE <<>>

\* the two starts are at least 10 seconds apart
Apart10(a, b) == RatLe(R(10), RatAbs(RatSub(a.start, b.start)))

LastCall == heuristic_calls[Len(heuristic_calls)]

ScenarioAI == <<AIMoment(10, 40, "a"), AIMoment(150, 180, "b")>>

Scenario ==
    /\ duration = 200
    /\ request.clip_duration = 60
    /\ request.num_shorts = 4
    /\ ai_answer.kind = "list"
    /\ ai_answer.value = ScenarioAI

\* C1: for num_shorts >= 0 selection returns at most num_shorts moments; it
\* returns fewer only after a backfill call for 2 * num_shorts candidates
\* whose loop examined every candidate, each candidate that was not appended
\* being within 10 seconds of a returned moment; in the scenario (duration
\* 200, clip_duration 60, num_shorts 4, AI starts 10 and 150) it returns 4.
C1_AtMostRequested ==
    /\ (Selected /\ request.num_shorts >= 0) =>
         /\ Len(moments) <= request.num_shorts
         /\ Len(moments) < request.num_shorts =>
              /\ heuristic_calls # <<>>
              /\ LastCall = [site |-> "backfill",
                             num_clips |-> 2 * request.num_shorts]
              /\ hidx = Len(heuristic_moments) + 1
              /\ \A k \in 1..Len(heuristic_moments) :
                    heuristic_moments[k].reason # "Heuristic Backfill"
                    => \E j \in 1..Len(moments) :
                          ~Apart10(heuristic_moments[k], moments[j])
    /\ (Selected /\ Scenario) => Len(moments) = 4

C1_Witness ==
    /\ pc = "done"
    /\ Scenario
    /\ Len(moments) = 4
    /\ added_count = 2

\* C2: a backfill step appends a heuristic candidate only if its start is at
\* least 10 seconds from the start of every moment accepted so far, AI
\* candidates and candidates appended earlier in the same backfill alike.
C2_AppendOnlyIfApart ==
    [][(pc = "Backfill" /\ Len(moments') = Len(moments) + 1) =>
          /\ moments'[Len(moments')].start = heuristic_moments[hidx].start
          /\ \A k \in 1..Len(moments) :
                Apart10(heuristic_moments[hidx], moments[k])]_vars

\* two candidates were appended after at least one AI candidate
C2_Witness ==
    /\ pc = "Backfill"
    /\ added_count = 2
    /\ ai_candidates # <<>>
    /\ Len(moments) = Len(ai_candidates) + 2

IsSortedByStart(ms) ==
    \A j, k \in 1..Len(ms) : j < k => RatLe(ms[j].start, ms[k].start)

\* C3: the list handed to the render loop is sorted ascending by start,
\* whichever branch of the selection produced it.
C3_SortedForRender ==
    (Selected /\ AllHaveStart(moments)) => IsSortedByStart(moments)

\* the candidate list the limit step sees: the AI list, or the full
\* heuristic list when the AI list is empty
Candidates ==
    IF ai_candidates # <<>> THEN ai_candidates
    ELSE detect_high_energy_moments(duration, request.num_shorts,
                                    request.clip_duration)

C5_NonPositiveCountIsEmpty ==
    (Selected /\ request.num_shorts <= 0) =>
        (moments = <<>> /\ generated_clips = <<>>)

\* C6: when the AI call raises or its answer is not a list of moments, the
\* selected list is detect_high_energy_moments(duration, num_shorts,
\* clip_duration) exactly.
C6_FailureEqualsHeuristic ==
    (ai_answer.kind \in {"raise", "object", "scalar"}) =>
        /\ pc # "failed"
        /\ Selected =>
             moments = detect_high_energy_moments(
                           duration, request.num_shorts, request.clip_duration)

\* C7 as stated: any two distinct moments of the result start at least 10
\* seconds apart.
C7_AllPairsApart ==
    (Selected /\ AllHaveStart(moments)) =>
        \A j, k \in 1..Len(moments) : j # k => Apart10(moments[j], moments[k])

\* C7 amended: a moment appended by backfill starts at least 10 seconds from
\* every other moment of the result.
C7_BackfilledApart ==
    (Selected /\ AllHaveStart(moments)) =>
        \A j, k \in 1..Len(moments) :
            (j # k /\ moments[j].reason = "Heuristic Backfill")
            => Apart10(moments[j], moments[k])

\* a backfilled moment next to two AI moments that start 5 seconds apart
C7_Witness ==
    /\ pc = "done"
    /\ \E j \in 1..Len(moments) : moments[j].reason = "Heuristic Backfill"
    /\ \E j, k \in 1..Len(moments) :
          /\ HasKey(moments[j], "title") /\ HasKey(moments[k], "title")
          /\ moments[j].start = R(10) /\ moments[k].start = R(15)

(* ================== properties: heuristic generator =================== *)

\* the fallback call (line 172) has just returned into moments
FallbackReturned ==
    /\ pc = "Limit"
    /\ heuristic_calls # <<>>

\* the backfill call (line 188) has just returned into heuristic_moments
BackfillReturned ==
    /\ pc = "Backfill"
    /\ hidx = 1
    /\ added_count = 0

\* exactly n moments, each of length c, inside [0, d]
EvenlySpaced(ms, d, n, c) ==
    /\ Len(ms) = n
    /\ \A k \in 1..Len(ms) :
          /\ RatSub(ms[k].end, ms[k].start) = R(c)
          /\ RatLe(R(0), ms[k].start)
          /\ RatLe(RatAdd(ms[k].start, R(c)), R(d))

\* C8 as stated: for d > c and n >= 0 the generator returns exactly n
\* moments, each with end - start = c, start >= 0 and start + c <= d.
C8_ExactlyN ==
    /\ (FallbackReturned /\ duration > request.clip_duration
                         /\ request.num_shorts >= 0) =>
          EvenlySpaced(moments, duration, request.num_shorts,
                       request.clip_duration)
    /\ (BackfillReturned /\ duration > request.clip_duration) =>
          EvenlySpaced(heuristic_moments, duration, 2 * request.num_shorts,
                       request.clip_duration)

\* C8 amended: the same for d > c and d > 0 (a duration of 0, which is what
\* a failed ffprobe reports, yields no moment at all).
C8_ExactlyNPositiveDuration ==
    /\ (FallbackReturned /\ duration > request.clip_duration /\ duration > 0
                         /\ request.num_shorts >= 0) =>
          EvenlySpaced(moments, duration, request.num_shorts,
                       request.clip_duration)
    /\ (BackfillReturned /\ duration > request.clip_duration /\ duration > 0) =>
          EvenlySpaced(heuristic_moments, duration, 2 * request.num_shorts,
                       request.clip_duration)

C8_Witness ==
    /\ BackfillReturned
    /\ duration = 70
    /\ request.clip_duration = 60
    /\ Len(heuristic_moments) = 8
    /\ heuristic_moments[8].start = Rat(80, 9)

FullVideo(d) ==
    << [start |-> R(0), end |-> R(d), score |-> "1.0",
        reason |-> "Full video (short)"] >>

\* C9 as stated: for 0 <= d <= c the generator returns exactly one moment,
\* start 0, end d, score 1.0, reason "Full video (short)".
C9_FullVideo ==
    /\ (FallbackReturned /\ 0 <= duration
                         /\ duration <= request.clip_duration) =>
          moments = FullVideo(duration)
    /\ (BackfillReturned /\ 0 <= duration
                         /\ duration <= request.clip_duration) =>
          heuristic_moments = FullVideo(duration)

\* C9 amended: the same for 0 < d <= c (for d = 0 the generator returns the
\* empty list).
C9_FullVideoPositiveDuration ==
    /\ (FallbackReturned /\ 0 < duration
                         /\ duration <= request.clip_duration) =>
          moments = FullVideo(duration)
    /\ (BackfillReturned /\ 0 < duration
                         /\ duration <= request.clip_duration) =>
          heuristic_moments = FullVideo(duration)

C9_Witness ==
    /\ BackfillReturned
    /\ duration = 60
    /\ request.clip_duration = 60
    /\ request.num_shorts = 3
    /\ heuristic_moments = FullVideo(60)

(* ===================== caption timing on its own ====================== *)

\* word timestamps and clip offsets of the caption-timing specification
SrtTimes == {8, 10, 12}
SrtOffsets == {R(0), R(10), Rat(21, 2), R(13)}

\* every word over SrtTimes, the ill-timed ones (end < start) included
SrtWords == {Word("w", s, e) : s \in SrtTimes, e \in SrtTimes}

\* a request whose selection left one moment starting at offset o, with a
\* one-segment transcript carrying the words ws
InitSrt ==
    \E o \in SrtOffsets, ws \in SeqsUpTo(SrtWords, MaxWords) :
       LET m    == [AIMoment(0, 0, "a") EXCEPT !.start = o,
                                               !.end = RatAdd(o, R(30))]
           segs == << [start |-> 8, end |-> 12, text |-> "w w w",
                       words |-> ws] >>
       IN  /\ pc = "Render"
           /\ request = [num_shorts |-> 1, clip_duration |-> 60,
                         trim |-> FALSE, video_path |-> "source",
                         caption_style |-> "Classic", custom_color |-> <<>>,
                         custom_bg_color |-> <<>>, custom_size |-> 0]
           /\ duration = 200
           /\ transcript = [kind |-> "dict", text |-> "w w w",
                            segments |-> segs]
           /\ segments = segs
           /\ moments = <<m>>
           /\ heuristic_moments = <<>>
           /\ needed = 0
           /\ added_count = 0
           /\ hidx = 1
           /\ idx = 1
           /\ generated_clips = <<>>
           /\ srt_files = <<>>
           /\ cache = CacheFile(segs)
           /\ failures = 0
           /\ ai_answer = [kind |-> "list", value |-> <<m>>]
           /\ heuristic_calls = <<>>
           /\ stages = <<"Ingest", "ExtractAudio", "Transcribe", "Analyze",
                         "SaveTranscript", "Fallback", "Limit">>
           /\ attempts = <<>>
           /\ final_style = <<>>
           /\ response = NoResponse
           /\ now = 0
           /\ regens = <<>>

NextSrt == RenderClip \/ Aggregate

SpecSrt == InitSrt /\ [][NextSrt]_vars

\* each word ends no earlier than it starts, and starts and ends do not
\* decrease along the list
WellTimed(ws) ==
    /\ \A k \in 1..Len(ws) : ws[k].start <= ws[k].end
    /\ \A j, k \in 1..Len(ws) :
          j < k => (ws[j].start <= ws[k].start /\ ws[j].end <= ws[k].end)

\* C10: for well-timed words and any offset, a cue file has at most as many
\* cues as there are words, and every cue has 0 <= start <= end.
C10_CuesBounded ==
    \A p \in DOMAIN srt_files :
        WellTimed(FlattenWords(segments)) =>
            /\ Len(srt_files[p]) <= Len(FlattenWords(segments))
            /\ \A k \in 1..Len(srt_files[p]) :
                  /\ RatLe(R(0), srt_files[p][k].start)
                  /\ RatLe(srt_files[p][k].start, srt_files[p][k].end)

\* a word before the clip was dropped and a word straddling the clip start
\* was clamped to 0
C10_Witness ==
    /\ srt_path(1) \in DOMAIN srt_files
    /\ moments[1].start = Rat(21, 2)
    /\ FlattenWords(segments) =
           <<Word("w", 8, 10), Word("w", 10, 12), Word("w", 12, 12)>>
    /\ Len(srt_files[srt_path(1)]) = 2
    /\ srt_files[srt_path(1)][1].start = R(0)
    /\ srt_files[srt_path(1)][1].end = Rat(3, 2)

(* ===================== caption style on its own ======================= *)

Chars112233 == <<"1", "1", "2", "2", "3", "3">>

\* caption_style of a request: the five presets and a name not in the table
StyleChoices == StyleNames \cup {"Neon"}

\* custom_color and custom_bg_color of a request: none, #RRGGBB, RRGGBB
\* without the '#', a short one, one with two leading '#'
StyleColours ==
    { <<>>,
      <<"#">> \o Chars112233,
      <<"A", "A", "B", "B", "C", "C">>,
      <<"#", "1", "2", "3">>,
      <<"#", "#">> \o Chars112233 }

\* custom_size of a request: none, 48
StyleSizes == {0, 48}

\* a request whose selection left one moment, with a one-segment transcript
\* and any style fields
InitStyle ==
    \E name \in StyleChoices, color \in StyleColours, bg \in StyleColours,
       size \in StyleSizes :
       LET m    == AIMoment(10, 40, "a")
           segs == << [start |-> 8, end |-> 20, text |-> "hi there",
                       words |-> <<Word("hi", 8, 12),
                                   Word("there", 12, 20)>>] >>
       IN  /\ pc = "Render"
           /\ request = [num_shorts |-> 1, clip_duration |-> 60,
                         trim |-> FALSE, video_path |-> "source",
                         caption_style |-> name, custom_color |-> color,
                         custom_bg_color |-> bg, custom_size |-> size]
           /\ duration = 200
           /\ transcript = [kind |-> "dict", text |-> "hi there",
                            segments |-> segs]
           /\ segments = segs
           /\ moments = <<m>>
           /\ heuristic_moments = <<>>
           /\ needed = 0
           /\ added_count = 0
           /\ hidx = 1
           /\ idx = 1
           /\ generated_clips = <<>>
           /\ srt_files = <<>>
           /\ cache = CacheFile(segs)
           /\ failures = 0
           /\ ai_answer = [kind |-> "list", value |-> <<m>>]
           /\ heuristic_calls = <<>>
           /\ stages = <<"Ingest", "ExtractAudio", "Transcribe", "Analyze",
                         "SaveTranscript", "Fallback", "Limit">>
           /\ attempts = <<>>
           /\ final_style = <<>>
           /\ response = NoResponse
           /\ now = 0
           /\ regens = <<>>

NextStyle == RenderClip \/ Aggregate

SpecStyle == InitStyle /\ [][NextStyle]_vars

\* the value of attribute key in style, <<>> when style has no such attribute
StyleValue(style, key) ==
    IF \E k \in 1..Len(style) : style[k].key = key
    THEN style[CHOOSE k \in 1..Len(style) : style[k].key = key].value
    ELSE <<>>

\* c is RRGGBB with or without leading '#'
WellFormedColour(c) ==
    /\ Len(lstrip(c)) = 6
    /\ \A k \in 1..6 : lstrip(c)[k] \in HexDigits

\* &HBBGGRR& of a well-formed colour
Reversed(c) ==
    LET h == lstrip(c)
    IN  <<"&", "H", h[5], h[6], h[3], h[4], h[1], h[2], "&">>

\* the style of a cut has been resolved
Styled == attempts # <<>>

\* C17: for each of the five presets and every well-formed bg_color the
\* resolved style has BorderStyle=3, Shadow=0 and an OutlineColour equal to
\* bg_color with its bytes reversed.
C17_BoxStyle ==
    (Styled /\ request.caption_style \in StyleNames
            /\ WellFormedColour(request.custom_bg_color)) =>
        /\ StyleValue(final_style, "BorderStyle") = <<"3">>
        /\ StyleValue(final_style, "Shadow") = <<"0">>
        /\ StyleValue(final_style, "OutlineColour")
             = Reversed(request.custom_bg_color)

NoOverrides ==
    /\ request.custom_color = <<>>
    /\ request.custom_bg_color = <<>>
    /\ request.custom_size = 0

\* C18: without overrides the resolved style is the table entry of the named
\* preset, unchanged, and the Classic entry, unchanged, for a name that is
\* not in the table.
C18_PresetUnchanged ==
    (Styled /\ NoOverrides) =>
        /\ request.caption_style \in StyleNames =>
              final_style = STYLE_MAP[request.caption_style]
        /\ request.caption_style \notin StyleNames =>
              final_style = STYLE_MAP["Classic"]

C18_Witness ==
    /\ pc = "done"
    /\ NoOverrides
    /\ request.caption_style = "Neon"
    /\ final_style = STYLE_MAP["Classic"]
    /\ Len(response.clips) = 1

\* c is given and its length without the leading '#' is not 6
Malformed(c) == c # <<>> /\ Len(lstrip(c)) # 6

\* the last cut succeeded and its clip is in the list
LastClipRendered ==
    attempts[Len(attempts)].cut =>
        /\ generated_clips # <<>>
        /\ generated_clips[Len(generated_clips)].path
             = output_path(attempts[Len(attempts)].clip)

ApplyColor(style) == apply_custom_color(style, request.custom_color)
ApplyBg(style) == apply_custom_bg_color(style, request.custom_bg_color)
ApplySize(style) == apply_custom_size(style, request.custom_size)

\* C24: for every preset and every combination of text_color, bg_color and
\* font_size, applying the three overrides in any of the six orders gives
\* the style resolved in the order text_color, bg_color, font_size.
C24_OverridesCommute ==
    Styled =>
        LET base == base_style(request.caption_style)
        IN  /\ final_style = ApplySize(ApplyBg(ApplyColor(base)))
            /\ final_style = ApplyBg(ApplySize(ApplyColor(base)))
            /\ final_style = ApplySize(ApplyColor(ApplyBg(base)))
            /\ final_style = ApplyColor(ApplySize(ApplyBg(base)))
            /\ final_style = ApplyBg(ApplyColor(ApplySize(base)))
            /\ final_style = ApplyColor(ApplyBg(ApplySize(base)))

\* all three overrides are applied to the Glitch preset
C24_Witness ==
    /\ Styled
    /\ request.caption_style = "Glitch"
    /\ request.custom_color = <<"A", "A", "B", "B", "C", "C">>
    /\ request.custom_bg_color = <<"#">> \o Chars112233
    /\ request.custom_size = 48
    /\ StyleValue(final_style, "PrimaryColour")
         = Ass(<<"C", "C">>, <<"B", "B">>, <<"A", "A">>)
    /\ StyleValue(final_style, "OutlineColour")
         = Ass(<<"3", "3">>, <<"2", "2">>, <<"1", "1">>)
    /\ StyleValue(final_style, "BorderStyle") = <<"3">>
    /\ StyleValue(final_style, "Shadow") = <<"0">>
    /\ StyleValue(final_style, "Fontsize") = <<"4", "8">>

(* =================== properties: cue construction ===================== *)

\* the cue a segment without word timing stands for at offset o
SegmentCue(seg, o) ==
    LET rel == RatSub(R(seg.start), o)
    IN  [start |-> IF RatLt(rel, R(0)) THEN R(0) ELSE rel,
         end   |-> RatSub(R(seg.end), o),
         text  |-> seg.text]

NoWordTiming(seg) == ~HasKey(seg, "words") \/ seg.words = <<>>

\* C11: every segment without word timing (no words key, or an empty words
\* list) whose end is not before the clip start contributes exactly one cue
\* to the clip's cue file, built from the segment's start, end and text.
C11_SegmentCue ==
    \A i \in 1..Len(moments) :
        srt_path(i) \in DOMAIN srt_files =>
            LET file == srt_files[srt_path(i)]
                o    == moments[i].start
            IN  \A s \in 1..Len(segments) :
                   (NoWordTiming(segments[s])
                      /\ RatLe(o, R(segments[s].end))) =>
                   Cardinality({k \in 1..Len(file) :
                       /\ file[k].text = SegmentCue(segments[s], o).text
                       /\ file[k].start = SegmentCue(segments[s], o).start
                       /\ file[k].end = SegmentCue(segments[s], o).end}) = 1

\* positions in ws of the words whose relative end at offset o is >= 0
Kept(ws, o) == {k \in 1..Len(ws) : RatLe(o, R(ws[k].end))}

\* how many kept words stand at or before position k
Rank(ws, o, k) == Cardinality({j \in Kept(ws, o) : j <= k})

\* C12: the cues of a clip's file are exactly the words whose relative end
\* is >= 0 (exactly 0 included), one cue per word in the words' order, and
\* they are numbered 1..k without a gap.
C12_CuesAreKeptWords ==
    \A i \in 1..Len(moments) :
        srt_path(i) \in DOMAIN srt_files =>
            LET file == srt_files[srt_path(i)]
                o    == moments[i].start
                ws   == FlattenWords(segments)
            IN  /\ Len(file) = Cardinality(Kept(ws, o))
                /\ \A k \in Kept(ws, o) :
                      /\ file[Rank(ws, o, k)].text = ws[k].word
                      /\ file[Rank(ws, o, k)].end = RatSub(R(ws[k].end), o)
                /\ \A n \in 1..Len(file) : file[n].index = n

\* at offset 10 the first word (ends at 8) is dropped, the second ends at
\* the clip start and is cue 1, the third is cue 2
C12_Witness ==
    /\ srt_path(1) \in DOMAIN srt_files
    /\ moments[1].start = R(10)
    /\ FlattenWords(segments) =
           <<Word("w", 8, 8), Word("w", 8, 10), Word("w", 10, 12)>>
    /\ Len(srt_files[srt_path(1)]) = 2
    /\ srt_files[srt_path(1)][1].index = 1
    /\ srt_files[srt_path(1)][1].end = R(0)
    /\ srt_files[srt_path(1)][2].index = 2
    /\ srt_files[srt_path(1)][2].end = R(2)

(* ================ properties: failures of the stages ================== *)

Went(stage) == \E k \in 1..Len(stages) : stages[k] = stage

\* the Transcribe stage ran and the transcriber raised, returned None or
\* returned empty text
TranscribeFailed ==
    /\ Went("Transcribe")
    /\ transcript.kind = "None" \/ transcript.text = ""

HeuristicReasons ==
    {"Full video (short)", "Heuristic Backfill"}
    \cup {"Heuristic segment " \o ToString(k) \o " (Fallback)" :
             k \in 1..(2 * MaxShorts + 2)}

\* C13: when the Transcribe stage fails (raise, None or empty text) the
\* request does not fail and goes on without a transcript: the AI is not
\* called, every moment comes from the heuristic generator, no cue file is
\* written, and the response carries the sentinel in place of a transcript.
C13_TranscribeFailureContinues ==
    TranscribeFailed =>
        /\ pc # "failed"
        /\ ai_answer = NotAsked
        /\ \A k \in 1..Len(moments) :
              /\ HasKey(moments[k], "reason")
              /\ moments[k].reason \in HeuristicReasons
        /\ srt_files = <<>>
        /\ pc = "done" => response.transcript = NoTranscriptAvailable

\* an exception was raised in the Analyze stage: inside analyze_transcript
\* ("raise"), or by len(moments) on line 153 ("scalar")
AnalyzeRaised == ai_answer.kind \in {"raise", "scalar"}

\* C14: the AI is called only if a transcript exists; an exception raised
\* in the Analyze stage never fails the request, leaves the candidate list
\* empty and is followed by the fallback call of the heuristic generator for
\* num_shorts moments.
C14_AnalyzeNeverFails ==
    /\ ai_answer # NotAsked => transcript.kind # "None"
    /\ AnalyzeRaised =>
          /\ pc # "failed"
          /\ ai_candidates = <<>>
          /\ Went("Fallback") =>
                /\ heuristic_calls # <<>>
                /\ heuristic_calls[1] = [site |-> "fallback",
                                         num_clips |-> request.num_shorts]

\* iterations of the render loop whose cut succeeded
CutOk == {k \in 1..Len(attempts) : attempts[k].cut}

\* C15: a failed cut of clip i omits clip i only: the loop goes on to every
\* later moment, and the clip list of the response is exactly the moments
\* whose cut succeeded, in the order of the moments.
C15_FailedCutSkipsOneClip ==
    /\ pc = "Render" => Len(attempts) = idx - 1
    /\ pc = "done" =>
          /\ Len(attempts) = Len(moments)
          /\ \A k \in 1..Len(attempts) : attempts[k].clip = k
          /\ Len(response.clips) = Cardinality(CutOk)
          /\ \A k \in CutOk :
                LET clip == response.clips[Cardinality({j \in CutOk : j <= k})]
                IN  /\ clip.path = output_path(k)
                    /\ clip.start = moments[k].start
                    /\ clip.end = moments[k].end

\* the cut of the second of three clips failed; clips 1 and 3 are returned
C15_Witness ==
    /\ pc = "done"
    /\ Len(moments) = 3
    /\ ~attempts[2].cut
    /\ Len(response.clips) = 2
    /\ response.clips[1].path = output_path(1)
    /\ response.clips[2].path = output_path(3)

\* the stage the request went through last
LastStage == stages[Len(stages)]

\* C16: a request ends as a failure only when the source file cannot be
\* resolved or the audio extraction fails: a failed request failed in Ingest
\* or in ExtractAudio, and an error in any other stage (trim, transcription,
\* analysis, transcript cache, selection, cue generation, cut) is absorbed.
C16_FailsOnlyInIngestOrAudio ==
    pc = "failed" => LastStage \in {"Ingest", "ExtractAudio"}

\* C20: every moment selection hands to the render loop has end > start,
\* whatever the AI answer, the duration, clip_duration and num_shorts.
C20_MomentsHaveLength ==
    Selected =>
        \A k \in 1..Len(moments) :
            /\ HasKey(moments[k], "start")
            /\ HasKey(moments[k], "end")
            /\ RatLt(moments[k].start, moments[k].end)

(* ===================== properties: regeneration ======================= *)

\* the regenerate request found the cache file
Found(r) == r.status # "404 transcript"

\* C21: under every interleaving of process and regenerate requests for one
\* file_id, a regenerate request that finds the cache file reads a complete
\* segment list, never an empty or truncated file.
C21_CacheReadComplete ==
    \A k \in 1..Len(regens) :
        Found(regens[k]) => regens[k].read.complete

(* ====================== properties: render loop ======================= *)

\* C22: the clip rendered at loop index i is moments[i]: its cut window and
\* cue offset are moments[i].start and end, its output and subtitle files
\* carry the number i + 1 (k here, counting from 1) also after failed clips,
\* and no two moments share an output path or a subtitle path.
C22_ClipIndexIsMoment ==
    /\ \A k \in 1..Len(attempts) :
          LET a == attempts[k]
          IN  /\ a.clip = k
              /\ a.start_time = moments[k].start
              /\ a.end_time = moments[k].end
              /\ a.output_path = "short_" \o ToString(k) \o ".mp4"
              /\ a.srt # "none" => a.offset = moments[k].start
              /\ a.srt = "written" =>
                    /\ a.subtitle_path = "short_" \o ToString(k) \o ".srt"
                    /\ a.subtitle_path \in DOMAIN srt_files
                    /\ srt_files[a.subtitle_path]
                         = generate_word_level_srt(segments,
                                                   moments[k].start)
    /\ \A j, k \in 1..Len(attempts) :
          j # k =>
             /\ attempts[j].output_path # attempts[k].output_path
             /\ (attempts[j].srt = "written" /\ attempts[k].srt = "written")
                  => attempts[j].subtitle_path # attempts[k].subtitle_path
    /\ \A k \in 1..Len(generated_clips) :
          \E j \in 1..Len(attempts) :
             /\ attempts[j].cut
             /\ generated_clips[k].path = attempts[j].output_path
             /\ generated_clips[k].start = moments[j].start
             /\ generated_clips[k].end = moments[j].end

\* the first of three cuts failed; the third clip is still number 3
C22_Witness ==
    /\ pc = "done"
    /\ Len(moments) = 3
    /\ segments # <<>>
    /\ ~attempts[1].cut
    /\ attempts[3].output_path = "short_3.mp4"
    /\ attempts[3].subtitle_path = "short_3.srt"
    /\ response.clips[2].path = "short_3.mp4"

(* ====================== properties: stage order ======================= *)

StageOrder ==
    <<"Ingest", "Trim", "ExtractAudio", "Transcribe", "Analyze",
      "SaveTranscript", "Fallback", "Limit", "Backfill", "Render">>

Pos(stage) == CHOOSE i \in 1..Len(StageOrder) : StageOrder[i] = stage

\* the stages so far came in the order of StageOrder, each at most once
InOrder ==
    \A j, k \in 1..Len(stages) : j < k => Pos(stages[j]) < Pos(stages[k])

\* the request failed in Ingest or in ExtractAudio
FatalEarly == pc = "failed" /\ LastStage \in {"Ingest", "ExtractAudio"}

C23_State ==
    /\ InOrder
    /\ (pc = "Transcribe" \/ Went("Transcribe")) =>
          (Went("ExtractAudio") /\ ~FatalEarly)
    /\ cache.exists => (Went("Analyze") /\ transcript.kind # "None")
    /\ pc = "SaveTranscriptDump" => (Went("Analyze") /\ ~Went("Render"))
    /\ attempts # <<>> => (Went("Limit") /\ pc \in {"Render", "done", "failed"})
    /\ response # NoResponse => (pc = "done" /\ Went("Render"))
    /\ FatalEarly =>
          /\ cache = NoFile
          /\ attempts = <<>> /\ generated_clips = <<>> /\ srt_files = <<>>
          /\ transcript = NoTranscript /\ ai_answer = NotAsked
          /\ heuristic_calls = <<>>

C23_Step ==
    /\ cache' # cache =>
          (pc \in {"SaveTranscript", "SaveTranscriptDump"} /\ attempts = <<>>)
    /\ attempts' # attempts => (pc = "Render" /\ Went("Limit"))
    /\ pc = "failed" => pc' = "failed"

\* C23: the stages of a process request occur in the order Ingest,
\* ExtractAudio, Transcribe, Analyze, Select, Render, Aggregate:
\* transcription starts only after audio extraction succeeded, the cache is
\* written only with a transcript, after Analyze and before the first clip
\* render, no clip is rendered before selection has finished, and after a
\* fatal Ingest or ExtractAudio failure nothing runs and nothing is written.
C23_StagesInOrder == []C23_State /\ [][C23_Step]_vars

\* a request that went through every stage, trim and backfill included
C23_Witness ==
    /\ pc = "done"
    /\ stages = StageOrder
    /\ cache.exists /\ cache.complete
    /\ Len(response.clips) >= 2

(* ======================= properties: backfill ========================= *)

HasBackfilled(ms) ==
    \E k \in 1..Len(ms) :
        HasKey(ms[k], "reason") /\ ms[k].reason = "Heuristic Backfill"

\* C25: when the AI list is empty (full heuristic mode) no moment of the
\* selection carries the reason "Heuristic Backfill", for every duration,
\* clip_duration and num_shorts: the second heuristic call adds nothing.
C25_NoBackfillWithoutAI ==
    (pc \in {"Backfill", "Render", "done"} /\ ai_candidates = <<>>) =>
        (~HasBackfilled(moments) /\ added_count = 0)

\* full heuristic mode with a source shorter than the clip: the backfill
\* call was made for 6 candidates and its one candidate was rejected
C25_Witness ==
    /\ pc = "done"
    /\ ai_candidates = <<>>
    /\ request.num_shorts = 3
    /\ Len(heuristic_calls) = 2
    /\ heuristic_calls[2] = [site |-> "backfill", num_clips |-> 6]
    /\ hidx = 2
    /\ moments = FullVideo(duration)

(* ================ properties: regenerating a clip ===================== *)

\* C26: a regenerate request with the start and end of a clip that a
\* process request returned cuts the footage the process request cut, with
\* the cues of that clip, also when the process request trimmed the source.
C26_RegenerateSameFootage ==
    \A n \in 1..Len(regens), k \in 1..Len(attempts) :
        LET r == regens[n]
            a == attempts[k]
        IN  (r.status = "completed" /\ r.later /\ a.cut
               /\ r.start_time = a.start_time /\ r.end_time = a.end_time) =>
            /\ Footage(r.video_path, r.start_time, r.end_time)
                 = Footage(a.video_path, a.start_time, a.end_time)
            /\ a.srt = "written" => r.cues = srt_files[a.subtitle_path]

\* C27: two regenerate requests for one file_id never use the same output
\* path or the same subtitle path.
C27_RegenPathsDistinct ==
    \A j, k \in 1..Len(regens) :
        (j # k /\ HasKey(regens[j], "ts") /\ HasKey(regens[k], "ts")) =>
            /\ regens[j].output_path # regens[k].output_path
            /\ regens[j].srt_path # regens[k].srt_path

(* ================ properties: spacing of the heuristic ================ *)

\* ms has n moments, the k-th (from 1) starting at k * (d - c) / (n + 1);
\* none of them reaches past d and the starts increase strictly
Spaced(ms, d, n, c) ==
    /\ Len(ms) = n
    /\ \A k \in 1..Len(ms) :
          /\ ms[k].start = RatMulInt(Rat(d - c, n + 1), k)
          /\ RatLe(RatAdd(ms[k].start, R(c)), R(d))
    /\ \A j, k \in 1..Len(ms) : j < k => RatLt(ms[j].start, ms[k].start)

FullHeuristic == Selected /\ ai_candidates = <<>>

\* C28 as stated: for d > c and n >= 1 the starts of the generator are
\* exactly step * (i + 1), step = (d - c) / (n + 1), i = 0..n-1, without a
\* clamp and strictly increasing, and a full-heuristic selection is in
\* chronological order.
C28_StartsAreMultiples ==
    /\ (FallbackReturned /\ duration > request.clip_duration
                         /\ request.num_shorts >= 1) =>
          Spaced(moments, duration, request.num_shorts,
                 request.clip_duration)
    /\ (BackfillReturned /\ duration > request.clip_duration
                         /\ request.num_shorts >= 1) =>
          Spaced(heuristic_moments, duration, 2 * request.num_shorts,
                 request.clip_duration)
    /\ (FullHeuristic /\ duration > request.clip_duration
                      /\ request.num_shorts >= 1) =>
          (Len(moments) = request.num_shorts /\ IsSortedByStart(moments))

\* C28 amended: the same for d > c, d > 0 and n >= 1 (for a duration of 0,
\* which a failed ffprobe reports, the generator returns no moment).
C28_StartsAreMultiplesPositiveDuration ==
    /\ (FallbackReturned /\ duration > request.clip_duration /\ duration > 0
                         /\ request.num_shorts >= 1) =>
          Spaced(moments, duration, request.num_shorts,
                 request.clip_duration)
    /\ (BackfillReturned /\ duration > request.clip_duration /\ duration > 0
                         /\ request.num_shorts >= 1) =>
          Spaced(heuristic_moments, duration, 2 * request.num_shorts,
                 request.clip_duration)
    /\ (FullHeuristic /\ duration > request.clip_duration /\ duration > 0
                      /\ request.num_shorts >= 1) =>
          (Len(moments) = request.num_shorts /\ IsSortedByStart(moments))

\* four moments two seconds apart in a 70 second source
C28_Witness ==
    /\ pc = "done"
    /\ FullHeuristic
    /\ duration = 70
    /\ request.clip_duration = 60
    /\ request.num_shorts = 4
    /\ moments[1].start = R(2)
    /\ moments[4].start = R(8)
    /\ Len(generated_clips) >= 3

(* ================= properties: cue file failures ====================== *)

\* C29: a failure while generating the cue file of clip i does not skip the
\* clip: it is cut without a subtitle track and returned; and the cue file
\* is attempted for every clip exactly when the transcript has segments,
\* for AI and heuristic moments alike.
C29_CueFailureKeepsClip ==
    \A k \in 1..Len(attempts) :
        LET a == attempts[k]
        IN  /\ a.srt # "none" <=> segments # <<>>
            /\ a.srt = "failed" =>
                  /\ a.subtitle_path = "None"
                  /\ a.cut =>
                        \E n \in 1..Len(generated_clips) :
                           /\ generated_clips[n].path = a.output_path
                           /\ generated_clips[n].subtitle = "None"
                           /\ generated_clips[n].start = moments[k].start
                  /\ pc = "Render" => idx > k

\* the cue file of the first of two heuristic clips failed; both are returned
C29_Witness ==
    /\ pc = "done"
    /\ ai_candidates = <<>>
    /\ segments # <<>>
    /\ Len(moments) = 2
    /\ attempts[1].srt = "failed"
    /\ attempts[2].srt = "written"
    /\ Len(response.clips) = 2
    /\ response.clips[1].subtitle = "None"
    /\ response.clips[2].subtitle = srt_path(2)

(* ================= properties: frame of the backfill ================== *)

\* how often m occurs in ms
Count(ms, m) == Cardinality({k \in 1..Len(ms) : ms[k] = m})

\* ms and ns hold the same moments, each as often
SameMoments(ms, ns) ==
    /\ Len(ms) = Len(ns)
    /\ \A k \in 1..Len(ms) : Count(ms, ms[k]) = Count(ns, ms[k])

\* one step of the backfill: the loop body, or the sort that ends it
C30_Step ==
    pc = "Backfill" =>
        /\ pc' = "Backfill" =>
              LET hm == heuristic_moments[hidx]
              IN  \/ moments' = moments
                  \/ /\ moments' = Append(moments, moments'[Len(moments')])
                     /\ \A k \in 1..Len(moments) : Apart10(hm, moments[k])
                     /\ DOMAIN moments'[Len(moments')] = DOMAIN hm
                     /\ moments'[Len(moments')].reason = "Heuristic Backfill"
                     /\ moments'[Len(moments')].start = hm.start
                     /\ moments'[Len(moments')].end = hm.end
                     /\ moments'[Len(moments')].score = hm.score
        /\ pc' = "Render" => SameMoments(moments, moments')
        /\ pc' = "failed" => moments' = moments

\* C30: backfill leaves every moment already accepted as it is (the AI
\* moments keep start, end, reason, title, description and hashtags); an
\* appended heuristic moment differs from its candidate in the reason only,
\* and a rejected candidate is not added in any form.
C30_BackfillFrame == [][C30_Step]_vars

\* the two AI moments of the scenario around two backfilled moments
C30_Witness ==
    /\ pc = "Render"
    /\ idx = 1
    /\ Scenario
    /\ moments[1] = ScenarioAI[1]
    /\ moments[4] = ScenarioAI[2]
    /\ moments[2].reason = "Heuristic Backfill"
    /\ moments[3].reason = "Heuristic Backfill"
    /\ moments[2].score = "0.8"

====
